---- MODULE Spec2Model ----
(***************************************************************************)
(* Wallpaper Splitter (src/main.py): the screen list, the global           *)
(* reference/scale parameters, the resolution derivation and the export    *)
(* of one crop per screen.                                                 *)
(***************************************************************************)
EXTENDS Integers, Sequences, FiniteSets, TLC

(***************************************************************************)
(* Python float arithmetic (IEEE-754 binary64, round to nearest even).     *)
(* A natural number of any size is a little-endian sequence of limbs in    *)
(* 0..Base-1 without high zero limbs; a float is m * 2^e with m of exactly *)
(* Prec bits, or zero.                                                     *)
(***************************************************************************)
LimbBits == 15
Base == 2 ^ LimbBits
Prec == 53

Limb(a, i) == IF i >= 1 /\ i <= Len(a) THEN a[i] ELSE 0

RECURSIVE BigTrim(_)
BigTrim(a) ==
    IF a = <<>> THEN a
    ELSE IF a[Len(a)] = 0 THEN BigTrim(SubSeq(a, 1, Len(a) - 1)) ELSE a

BigFromInt(n) == BigTrim(<<n % Base, (n \div Base) % Base, n \div (Base * Base)>>)

BigToInt(a) == Limb(a, 1) + Base * Limb(a, 2) + Base * Base * Limb(a, 3)

RECURSIVE BigAddC(_, _, _, _)
BigAddC(a, b, i, c) ==
    IF i > Len(a) /\ i > Len(b)
    THEN IF c = 0 THEN <<>> ELSE <<c>>
    ELSE LET s == Limb(a, i) + Limb(b, i) + c
         IN  <<s % Base>> \o BigAddC(a, b, i + 1, s \div Base)

BigAdd(a, b) == BigAddC(a, b, 1, 0)

RECURSIVE BigMulSmallC(_, _, _, _)
BigMulSmallC(a, d, i, c) ==
    IF i > Len(a)
    THEN IF c = 0 THEN <<>> ELSE <<c>>
    ELSE LET p == a[i] * d + c
         IN  <<p % Base>> \o BigMulSmallC(a, d, i + 1, p \div Base)

BigMulSmall(a, d) == IF d = 0 THEN <<>> ELSE BigMulSmallC(a, d, 1, 0)

RECURSIVE BigMulAcc(_, _, _)
BigMulAcc(a, b, i) ==
    IF i > Len(b) THEN <<>>
    ELSE BigAdd(BigTrim([j \in 1..(i - 1) |-> 0] \o BigMulSmall(a, b[i])),
                BigMulAcc(a, b, i + 1))

BigMul(a, b) == BigMulAcc(a, b, 1)

BigShl(a, k) ==
    LET ls == k \div LimbBits
        p  == 2 ^ (k % LimbBits)
    IN  BigTrim([j \in 1..(Len(a) + ls + 1) |->
                   ((Limb(a, j - ls) * p) % Base) + ((Limb(a, j - ls - 1) * p) \div Base)])

BigShr(a, k) ==
    LET ls == k \div LimbBits
        p  == 2 ^ (k % LimbBits)
        n  == Len(a) - ls
    IN  IF n <= 0 THEN <<>>
        ELSE BigTrim([j \in 1..n |->
                        (Limb(a, j + ls) \div p) + (Limb(a, j + ls + 1) % p) * (Base \div p)])

BigBit(a, k) == (Limb(a, (k \div LimbBits) + 1) \div (2 ^ (k % LimbBits))) % 2

BigLowNonZero(a, k) ==
    \/ \E i \in 1..(k \div LimbBits) : Limb(a, i) # 0
    \/ Limb(a, (k \div LimbBits) + 1) % (2 ^ (k % LimbBits)) # 0

RECURSIVE BitLenSmall(_)
BitLenSmall(n) == IF n = 0 THEN 0 ELSE 1 + BitLenSmall(n \div 2)

BigBitLen(a) == IF a = <<>> THEN 0 ELSE LimbBits * (Len(a) - 1) + BitLenSmall(a[Len(a)])

\* a \div d and a % d for a limb-sized divisor d (1 <= d <= Base), from the high limb down
RECURSIVE BigDivSmallR(_, _, _, _)
BigDivSmallR(a, d, i, rem) ==
    IF i = 0 THEN [q |-> <<>>, r |-> rem]
    ELSE LET cur  == rem * Base + a[i]
             rest == BigDivSmallR(a, d, i - 1, cur % d)
         IN  [q |-> rest.q \o <<cur \div d>>, r |-> rest.r]

BigTrimQuotient(res) == [q |-> BigTrim(res.q), r |-> res.r]

BigDivSmall(a, d) == BigTrimQuotient(BigDivSmallR(a, d, Len(a), 0))

\* round the bits of M below position k away, to nearest, ties to even;
\* sticky says that the exact value has further nonzero bits below M
\* q is M without its k low bits: q + 1 when more than half is cut off, or just
\* half and q is odd
BigRoundTo(M, k, sticky, q) ==
    IF /\ BigBit(M, k - 1) = 1
       /\ (sticky \/ BigLowNonZero(M, k - 1) \/ BigBit(q, 0) = 1)
    THEN BigAdd(q, <<1>>)
    ELSE q

BigRoundShr(M, k, sticky) == IF k = 0 THEN M ELSE BigRoundTo(M, k, sticky, BigShr(M, k))

FlZero == [m |-> <<>>, e |-> 0]

\* the float nearest to M * 2^e (plus a nonzero fraction of 2^e when sticky)
\* r * 2^e for a rounded r of Prec bits, or of Prec + 1 bits when rounding carried
FlCarry(r, e) ==
    IF BigBitLen(r) > Prec THEN [m |-> BigShr(r, 1), e |-> e + 1] ELSE [m |-> r, e |-> e]

\* L is the bit length of M
FlRoundLen(M, e, sticky, L) ==
    IF L = 0 THEN FlZero
    ELSE IF L <= Prec THEN [m |-> BigShl(M, Prec - L), e |-> e - (Prec - L)]
    ELSE FlCarry(BigRoundShr(M, L - Prec, sticky), e + (L - Prec))

FlRound(M, e, sticky) == FlRoundLen(M, e, sticky, BigBitLen(M))

\* float(n) for 0 <= n < 2^31 (exact)
FlFromInt(n) == FlRound(BigFromInt(n), 0, FALSE)

\* the float literals 0.5 and 1.5
FlHalf == FlRound(<<1>>, 0 - 1, FALSE)
FlOneAndHalf == FlRound(<<3>>, 0 - 1, FALSE)

FlMul(a, b) ==
    IF a.m = <<>> \/ b.m = <<>> THEN FlZero
    ELSE FlRound(BigMul(a.m, b.m), a.e + b.e, FALSE)

FlAdd(a, b) ==
    IF a.m = <<>> THEN b
    ELSE IF b.m = <<>> THEN a
    ELSE LET e == IF a.e < b.e THEN a.e ELSE b.e
         IN  FlRound(BigAdd(BigShl(a.m, a.e - e), BigShl(b.m, b.e - e)), e, FALSE)

\* Python's n / d on ints 0 <= n < 2^31, 1 <= d <= Base: the correctly rounded quotient
DivGuardBits == 75
FlQuotient(res) == FlRound(res.q, 0 - DivGuardBits, res.r # 0)

FlDivInt(n, d) ==
    IF n = 0 THEN FlZero
    ELSE FlQuotient(BigDivSmall(BigShl(BigFromInt(n), DivGuardBits), d))

\* Python's round(x) for a float x >= 0: nearest integer, ties to even
PyRound(x) ==
    IF x.m = <<>> THEN 0
    ELSE IF x.e >= 0 THEN BigToInt(BigShl(x.m, x.e))
    ELSE BigToInt(BigRoundShr(x.m, 0 - x.e, FALSE))

Max(a, b) == IF a >= b THEN a ELSE b

\* Python's int(x) for a float x >= 0: the integer part
PyTrunc(x) ==
    IF x.m = <<>> THEN 0
    ELSE IF x.e >= 0 THEN BigToInt(BigShl(x.m, x.e))
    ELSE BigToInt(BigShr(x.m, 0 - x.e))

\* a < b for naturals of the same number of limbs, from limb i down
RECURSIVE BigLessAt(_, _, _)
BigLessAt(a, b, i) ==
    IF i = 0 THEN FALSE
    ELSE IF a[i] # b[i] THEN a[i] < b[i]
    ELSE BigLessAt(a, b, i - 1)

\* a < b for floats >= 0
FlLess(a, b) ==
    IF b.m = <<>> THEN FALSE
    ELSE IF a.m = <<>> THEN TRUE
    ELSE IF a.e # b.e THEN a.e < b.e
    ELSE BigLessAt(a.m, b.m, Len(a.m))

\* Python's min(a, b) of two floats
FlMin(a, b) == IF FlLess(b, a) THEN b ELSE a

\* the float literal 0.9
FlNineTenths == FlDivInt(9, 10)

\* int(n * f) for an int n and a float f >= 0: the product of float(n) and f,
\* truncated toward zero
truncated_product(n, f) ==
    IF n < 0 THEN 0 - PyTrunc(FlMul(FlFromInt(0 - n), f))
    ELSE PyTrunc(FlMul(FlFromInt(n), f))

(***************************************************************************)
(* ScreenConfig                                                            *)
(***************************************************************************)
colors == <<"#CC9709", "#C74405", "#CC0058", "#692ECC", "#2F6ECC", "#080E24">>

generate_color(screen_id) == colors[(screen_id % Len(colors)) + 1]

\* ScreenConfig.__init__
ScreenConfig(screen_id) ==
    [id |-> screen_id, ratio_w |-> 16, ratio_h |-> 9, x |-> 0, y |-> 0,
     width |-> 1920, height |-> 1080, color |-> generate_color(screen_id)]

get_box(s) == <<s.x, s.y, s.x + s.width, s.y + s.height>>

scale_factor_of(sp) ==
    FlAdd(FlHalf, FlMul(FlDivInt(sp, 100), FlOneAndHalf))

scaled_max_side_of(refw, refh, sp) ==
    FlMul(FlFromInt(Max(refw, refh)), scale_factor_of(sp))

\* mutant: the short side is derived from the rounded long side
sides_rounded_first(long, rw, rh) ==
    IF rw >= rh
    THEN <<long, PyRound(FlDivInt(long * rh, rw))>>
    ELSE <<PyRound(FlDivInt(long * rw, rh)), long>>

resolution_of_rounded_first(rw, rh, refw, refh, sp) ==
    sides_rounded_first(PyRound(scaled_max_side_of(refw, refh, sp)), rw, rh)

\* mutant: the ratio is applied the wrong way round
sides_inverted(scaled_max_side, rw, rh) ==
    IF rw >= rh
    THEN <<PyRound(scaled_max_side), PyRound(FlMul(scaled_max_side, FlDivInt(rw, rh)))>>
    ELSE <<PyRound(FlMul(scaled_max_side, FlDivInt(rh, rw))), PyRound(scaled_max_side)>>

resolution_of_inverted(rw, rh, refw, refh, sp) ==
    sides_inverted(scaled_max_side_of(refw, refh, sp), rw, rh)

\* the branch on the orientation: <<width, height>> from the scaled long side
sides(scaled_max_side, rw, rh) ==
    IF rw >= rh
    THEN <<PyRound(scaled_max_side), PyRound(FlMul(scaled_max_side, FlDivInt(rh, rw)))>>
    ELSE <<PyRound(FlMul(scaled_max_side, FlDivInt(rw, rh))), PyRound(scaled_max_side)>>

\* <<width, height>> as calculate_resolution assigns them, for the ratio rw:rh,
\* the reference refw x refh and the scale percentage sp
resolution_of(rw, rh, refw, refh, sp) ==
    sides(scaled_max_side_of(refw, refh, sp), rw, rh)

(***************************************************************************)
(* Text: what the entry widgets hold and what paths are made of is a       *)
(* sequence of one-character strings.                                      *)
(***************************************************************************)
Digits == <<"0", "1", "2", "3", "4", "5", "6", "7", "8", "9">>

IsDigit(c) == \E d \in 1..Len(Digits) : Digits[d] = c

DigitVal(c) == (CHOOSE d \in 1..Len(Digits) : Digits[d] = c) - 1

\* The characters that int() skips around the digits, up to U+00FF: the space,
\* \t, \n, \r, \f, the vertical tab (U+000B), the next line (U+0085) and the
\* no-break space (U+00A0); the last three stand in the set as they are.
\* (int() refuses U+001C to U+001F, and skips the spaces beyond U+00FF too.)
Whitespace == {" ", "\t", "\n", "\r", "\f", "", "", " "}

RECURSIVE lstrip(_)
lstrip(t) == IF t # <<>> /\ t[1] \in Whitespace THEN lstrip(Tail(t)) ELSE t

RECURSIVE rstrip(_)
rstrip(t) ==
    IF t # <<>> /\ t[Len(t)] \in Whitespace THEN rstrip(SubSeq(t, 1, Len(t) - 1)) ELSE t

strip(t) == rstrip(lstrip(t))

\* the value of a run of decimal digits in which single underscores may separate
\* digits, or -1 when t is not such a run
RECURSIVE DigitsValue(_, _, _)
DigitsValue(t, i, acc) ==
    IF i > Len(t) THEN acc
    ELSE IF IsDigit(t[i]) THEN DigitsValue(t, i + 1, 10 * acc + DigitVal(t[i]))
    ELSE IF t[i] = "_" /\ i > 1 /\ i < Len(t) /\ IsDigit(t[i - 1]) /\ IsDigit(t[i + 1])
         THEN DigitsValue(t, i + 1, acc)
    ELSE 0 - 1

ValueError == [ok |-> FALSE, val |-> 0]

\* Python's int(text): surrounding whitespace, an optional sign, decimal digits
PyInt(text) ==
    LET s      == strip(text)
        signed == s # <<>> /\ s[1] \in {"+", "-"}
        body   == IF signed THEN Tail(s) ELSE s
        v      == IF body = <<>> THEN 0 - 1 ELSE DigitsValue(body, 1, 0)
    IN  IF v < 0 THEN ValueError
        ELSE [ok |-> TRUE, val |-> IF signed /\ s[1] = "-" THEN 0 - v ELSE v]

\* Python's str(n) for an int, as f-strings render it
RECURSIVE StrNat(_)
StrNat(n) == IF n < 10 THEN <<Digits[n + 1]>> ELSE StrNat(n \div 10) \o <<Digits[(n % 10) + 1]>>

Str(n) == IF n < 0 THEN <<"-">> \o StrNat(0 - n) ELSE StrNat(n)

LastIndexOf(p, c) ==
    IF \E i \in 1..Len(p) : p[i] = c
    THEN CHOOSE i \in 1..Len(p) : p[i] = c /\ \A j \in (i + 1)..Len(p) : p[j] # c
    ELSE 0

\* os.path.splitext (posix): <<root, ext>>
splitext(p) ==
    LET sepIndex == LastIndexOf(p, "/")
        dotIndex == LastIndexOf(p, ".")
    IN  IF dotIndex > sepIndex /\ \E k \in (sepIndex + 1)..(dotIndex - 1) : p[k] # "."
        THEN <<SubSeq(p, 1, dotIndex - 1), SubSeq(p, dotIndex, Len(p))>>
        ELSE <<p, <<>>>>

\* os.path.join (posix) of two components
join(a, b) ==
    IF b # <<>> /\ b[1] = "/" THEN b
    ELSE IF a = <<>> \/ a[Len(a)] = "/" THEN a \o b
    ELSE a \o <<"/">> \o b


(***************************************************************************)
(* State                                                                   *)
(***************************************************************************)
VARIABLES
    screens,          \* WallpaperSplitterApp.screens: sequence of ScreenConfig records
    ref_width,        \* GlobalConfigWidget.ref_width
    ref_height,       \* GlobalConfigWidget.ref_height
    scale_percent,    \* GlobalConfigWidget.scale_percent
    image,            \* WallpaperSplitterApp.image: None or the opened image
    image_path,       \* WallpaperSplitterApp.image_path
    fs,               \* the files of the file system that exports see: path -> content
    pc,               \* "idle", or "loop" while extract_all iterates over the screens
    idx,              \* extract_all: index in screens of the next screen of the loop
    output_folder,    \* extract_all: the folder chosen in the dialog
    extracted_count,  \* extract_all: local extracted_count
    errors,           \* extract_all: local errors
    extracted,        \* the "Screen N extracted: path" lines logged so far
    runs,             \* number of export batches started so far
    last_log,         \* the last line logged at level INFO or above
    scale_factor,     \* WallpaperSplitterApp.scale_factor: preview pixels per image pixel
    x_offset,         \* WallpaperSplitterApp.x_offset (read only once it has been assigned)
    y_offset,         \* WallpaperSplitterApp.y_offset
    background_image, \* WallpaperSplitterApp.background_image: None or the resized image
    rectangles,       \* the canvas items tagged "rectangles": <<x1, y1, x2, y2>> each
    pending,          \* number of update_preview_full calls scheduled with root.after
    image_before,     \* history: <<image, image_path>> at the call of the load_image in progress
    stack,            \* the handlers that wait for the handler in progress to return
    nested            \* number of handlers started so far inside a handler that waits

vars == <<screens, ref_width, ref_height, scale_percent, image, image_path, fs, pc, idx,
          output_folder, extracted_count, errors, extracted, runs, last_log,
          scale_factor, x_offset, y_offset, background_image, rectangles,
          pending, image_before, stack, nested>>

config_vars == <<screens, ref_width, ref_height, scale_percent>>
image_vars  == <<image, image_path>>
batch_vars  == <<fs, idx, output_folder, extracted_count, errors, extracted, runs>>
export_vars == <<fs, pc, idx, output_folder, extracted_count, errors, extracted, runs>>
canvas_vars == <<scale_factor, x_offset, y_offset, background_image>>
preview_vars == <<scale_factor, x_offset, y_offset, background_image, rectangles>>
load_vars   == <<pending, image_before, stack, nested>>

\* Python's None where an image is expected, and where a path is expected
None == [file |-> <<>>, size |-> <<0, 0>>, data |-> FALSE]
NoPath == <<>>
NoBackground == [src |-> <<>>, size |-> <<0, 0>>]

\* image_before while no load_image is in progress
NoLoad == <<None, NoPath>>

LogLine(level, funcName, message) == [level |-> level, funcName |-> funcName, message |-> message]

\* Bounds of the model: the screens of the list, the screens of an export
\* session, the export batches of a session, the ratios of the resolution
\* derivation, the scheduled calls of update_preview_full, and the handlers of
\* a session that start inside a handler that waits.
MaxScreens == 3
MaxExported == 2
MaxRuns == 2
MaxRatio == 6
MaxTimers == 1
MaxNested == 1

\* The event loop is dispatching: the main loop is idle, or a handler is inside
\* preview_canvas.update() or a dialog, where the events that are pending are
\* dispatched to their handlers.
dispatching == pc \in {"idle", "update", "timer", "dialog"}

\* A handler that will wait itself can start: from the main loop, or inside a
\* handler that waits, which then waits for it to return.  The code sets no
\* limit to this; the model follows it for MaxNested such starts.
can_wait == pc = "idle" \/ (dispatching /\ nested < MaxNested)

\* the handler that starts goes to position at and waits there
call(at, before) ==
    /\ pc' = at
    /\ image_before' = before
    /\ stack' = IF pc = "idle"
                THEN stack
                ELSE <<[pc |-> pc, image_before |-> image_before]>> \o stack
    /\ nested' = IF pc = "idle" THEN nested ELSE nested + 1

\* the handler in progress returns to the handler that waits for it, or to the
\* main loop
return ==
    IF stack = <<>>
    THEN /\ pc' = "idle"
         /\ image_before' = NoLoad
         /\ UNCHANGED <<stack, nested>>
    ELSE /\ pc' = stack[1].pc
         /\ image_before' = stack[1].image_before
         /\ stack' = Tail(stack)
         /\ UNCHANGED nested

\* WallpaperSplitterApp.__init__ and GlobalConfigWidget.__init__
Init ==
    /\ screens = <<>>
    /\ ref_width = 2560
    /\ ref_height = 1440
    /\ scale_percent = 50
    /\ image = None
    /\ image_path = NoPath
    /\ fs = <<>>
    /\ pc = "idle"
    /\ idx = 0
    /\ output_folder = <<>>
    /\ extracted_count = 0
    /\ errors = <<>>
    /\ extracted = <<>>
    /\ runs = 0
    /\ last_log = LogLine("INFO", "__init__", "Application started")
    /\ scale_factor = FlFromInt(1)
    /\ x_offset = 0
    /\ y_offset = 0
    /\ background_image = NoBackground
    /\ rectangles = <<>>
    /\ pending = 0
    /\ image_before = NoLoad
    /\ stack = <<>>
    /\ nested = 0

(***************************************************************************)
(* What the user types: the four entries of a screen widget (ratio width,  *)
(* ratio height, x, y), the two entries of the reference resolution, and   *)
(* the slider value in tenths.                                             *)
(***************************************************************************)
EditInputs ==
    { <<<<"1", "6">>, <<"9">>, <<"0">>, <<"0">>>>,
      <<<<"9">>, <<"1", "6">>, <<"-", "1">>, <<"0">>>>,
      <<<<" ", "4", "\r">>, <<"\f", "3">>, <<"9", "0", "0">>, <<"5", "0", "\n">>>>,
      <<<<"1", "0", "0", "0", "0">>, <<"1">>, <<"0">>, <<"0">>>>,
      <<<<"0">>, <<"9">>, <<"9", "0", "0">>, <<"0">>>>,
      <<<<" ", "1", "6">>, <<"-", "9", "">>, <<"5">>, <<"5">>>>,
      <<<<"4">>, <<"3">>, <<"1", ".", "5">>, <<"0">>>>,
      <<<<>>, <<"9">>, <<"0">>, <<"0">>>> }

RefInputs ==
    { <<<<"2", "5", "6", "0">>, <<"1", "4", "4", "0">>>>,
      <<<<" ", "1">>, <<"1", "", "">>>>,
      <<<<"1", "0", "8", "0", "\r">>, <<"\t", "1", "9", "2", "0">>>>,
      <<<<"0">>, <<"1", "4", "4", "0">>>>,
      <<<<"1", "9", "2", "0">>, <<"-", "1">>>>,
      <<<<"x">>, <<"1", "0", "8", "0">>>>,
      <<<<"1", "9", "2", "0">>, <<>>>> }

\* the texts of all these entries
InputTexts ==
    {t[i] : t \in EditInputs, i \in 1..4} \cup {t[i] : t \in RefInputs, i \in 1..2}

\* int(text): PyInt, evaluated once for the texts of the entries above and looked
\* up afterwards; any other text is computed directly.
IntMemo == [text \in InputTexts |-> PyInt(text)] @@ <<>>

int(text) == IF text \in InputTexts THEN IntMemo[text] ELSE PyInt(text)

SliderTenths == {0, 375, 500, 1000}

\* int(value) of the slider's float value, given in tenths
IntOfTenths(v) == v \div 10

(***************************************************************************)
(* Resolutions.  resolution_of is evaluated once for every combination of  *)
(* ratio, reference and scale that the inputs above can produce and        *)
(* looked up afterwards; any other combination is computed directly.       *)
(***************************************************************************)
RatioValues ==
    {16, 9} \cup {v \in {int(t[i]).val : t \in EditInputs, i \in 1..2} : v > 0}

RefValues ==
    {2560, 1440} \cup {v \in {int(t[i]).val : t \in RefInputs, i \in 1..2} : v > 0}

ScaleValues == {50} \cup {IntOfTenths(v) : v \in SliderTenths}

ResolutionMemoDomain ==
    RatioValues \X RatioValues \X RefValues \X RefValues \X ScaleValues

ResolutionMemo ==
    \* (@@ makes TLC tabulate the function once instead of re-evaluating it per lookup)
    [k \in ResolutionMemoDomain |-> resolution_of(k[1], k[2], k[3], k[4], k[5])] @@ <<>>

\* the ratios, references and scales of the resolution derivation on its own
CalcRatios ==
    ((1..MaxRatio) \X (1..MaxRatio)) \cup {<<16, 9>>, <<9, 16>>, <<21, 9>>, <<16, 10>>}

CalcRefs ==
    { <<2560, 1440>>, <<1440, 2560>>, <<1920, 1080>>, <<101, 100>>, <<3, 2>>, <<1, 1>> }

ScaleMax == 100

calculate_resolution(s, refw, refh, sp) ==
    LET k  == <<s.ratio_w, s.ratio_h, refw, refh, sp>>
        wh == IF k \in ResolutionMemoDomain
              THEN ResolutionMemo[k]
              ELSE resolution_of(k[1], k[2], k[3], k[4], k[5])
    IN  [s EXCEPT !.width = wh[1], !.height = wh[2]]

recalculate_all_resolutions(ss, refw, refh, sp) ==
    [i \in 1..Len(ss) |-> calculate_resolution(ss[i], refw, refh, sp)]

(***************************************************************************)
(* Preview: the canvas shows the image scaled to fit and one rectangle per *)
(* screen.                                                                 *)
(***************************************************************************)
\* the screen after the four assignments of update_config
assign_config(s, ratio_w, ratio_h, x, y) ==
    [s EXCEPT !.ratio_w = ratio_w, !.ratio_h = ratio_h, !.x = x, !.y = y]

\* <<ratio_w, ratio_h, x, y>> of a configured screen: at 2560x1440 and scale 50
\* the first is 3200x1800 and the others are 1800x3200, the last one above the
\* image
ExportScreens ==
    { <<16, 9, 0, 0>>, <<9, 16, 0, 0>>, <<9, 16, 0, 0 - 5>> }

configured(c, screen_id) ==
    calculate_resolution(assign_config(ScreenConfig(screen_id), c[1], c[2], c[3], c[4]),
                         2560, 1440, 50)

\* The files the "Select an image" dialog can return: header tells whether
\* Image.open succeeds, data whether the pixel data decodes when it is loaded
\* (resize, crop), size is Image.size.  The second is narrower than a screen
\* of 3200x1800.
ImageFiles ==
    (<<"/", "a", ".", "p", "n", "g">> :> [header |-> TRUE, data |-> TRUE, size |-> <<4000, 3400>>])
    @@ (<<"/", "b">> :> [header |-> TRUE, data |-> TRUE, size |-> <<3000, 3400>>])
    @@ (<<"/", "t", ".", "p", "n", "g">> :> [header |-> TRUE, data |-> FALSE, size |-> <<4000, 3400>>])
    @@ (<<"/", "d", ".", "t", "x", "t">> :> [header |-> FALSE, data |-> FALSE, size |-> <<0, 0>>])

\* preview_canvas.winfo_width() and winfo_height() of the laid-out window
canvas_width == 800
canvas_height == 600

\* self.scale_factor = min(scale_w, scale_h) * 0.9 for an image of the given size
scale_to_fit(size) ==
    FlMul(FlMin(FlDivInt(canvas_width, size[1]), FlDivInt(canvas_height, size[2])),
          FlNineTenths)

\* scale_to_fit and truncated_product are evaluated once for the image sizes of
\* ImageFiles and for the coordinates up to a little beyond them, and looked up
\* afterwards; any other argument is computed directly.
PreviewSizes == {ImageFiles[f].size : f \in {g \in DOMAIN ImageFiles : ImageFiles[g].header}}

PreviewScaleMemo == [size \in PreviewSizes |-> scale_to_fit(size)] @@ <<>>

preview_scale(size) ==
    IF size \in PreviewSizes THEN PreviewScaleMemo[size] ELSE scale_to_fit(size)

PreviewCoords == (0 - 16)..4100

ProductMemoDomain == PreviewCoords \X {PreviewScaleMemo[size] : size \in PreviewSizes}

ProductMemo == [k \in ProductMemoDomain |-> truncated_product(k[1], k[2])] @@ <<>>

int_of_product(n, f) ==
    IF <<n, f>> \in ProductMemoDomain THEN ProductMemo[<<n, f>>] ELSE truncated_product(n, f)

\* <<new_width, new_height>>
resized(size, sf) == <<int_of_product(size[1], sf), int_of_product(size[2], sf)>>

\* <<x_offset, y_offset>> that center the resized image
centered(new_size) ==
    <<(canvas_width - new_size[1]) \div 2, (canvas_height - new_size[2]) \div 2>>

\* the corners that draw_rectangles computes for one screen
rectangle_of(s, sf, xo, yo) ==
    << int_of_product(s.x, sf) + xo,
       int_of_product(s.y, sf) + yo,
       int_of_product(s.x + s.width, sf) + xo,
       int_of_product(s.y + s.height, sf) + yo >>

draw_rectangles(ss, sf, xo, yo) == [i \in 1..Len(ss) |-> rectangle_of(ss[i], sf, xo, yo)]

\* update_preview_rectangles, called when the screens have become ss
update_preview_rectangles(ss) ==
    IF image = None \/ background_image = NoBackground
    THEN rectangles
    ELSE draw_rectangles(ss, scale_factor, x_offset, y_offset)

(***************************************************************************)
(* Handlers of the configuration                                           *)
(***************************************************************************)
\* mutant: the screen widget's on_update callback does not recompute
on_screen_update_skipped(ss) == ss

on_screen_update(ss) == recalculate_all_resolutions(ss, ref_width, ref_height, scale_percent)

on_global_config_change(rw, rh, sp) == recalculate_all_resolutions(screens, rw, rh, sp)

add_screen ==
    /\ dispatching
    /\ Len(screens) < MaxScreens
    /\ LET screen_id == Len(screens)
       IN  /\ screens' = recalculate_all_resolutions(Append(screens, ScreenConfig(screen_id)),
                                                     ref_width, ref_height, scale_percent)
           /\ last_log' = LogLine("INFO", "add_screen", <<"Screen added", screen_id + 1>>)
    /\ rectangles' = update_preview_rectangles(screens')
    /\ UNCHANGED <<ref_width, ref_height, scale_percent, image_vars, export_vars, canvas_vars, load_vars>>

\* mutant: delete_screen without the loop that reassigns ids and colors
reorganize_skipped(ss) == ss

\* mutant: the loop reassigns the ids and leaves the colors
reorganize_ids_only(ss) == [i \in 1..Len(ss) |-> [ss[i] EXCEPT !.id = i - 1]]

\* the loop "Reorganize IDs and colors"
reorganize(ss) ==
    [i \in 1..Len(ss) |-> [ss[i] EXCEPT !.id = i - 1, !.color = generate_color(i - 1)]]

\* mutant: the index is taken one too far
pop_next(ss, index) == SubSeq(ss, 1, index) \o SubSeq(ss, index + 2, Len(ss))

pop(ss, index) == SubSeq(ss, 1, index - 1) \o SubSeq(ss, index + 1, Len(ss))

\* delete_screen of the screen at position index (1-based) of the list
delete_screen(index) ==
    /\ dispatching
    /\ index \in 1..Len(screens)
    /\ last_log' = LogLine("INFO", "delete_screen", <<"Screen deleted">>)
    /\ screens' = recalculate_all_resolutions(reorganize(pop(screens, index)),
                                              ref_width, ref_height, scale_percent)
    /\ rectangles' = update_preview_rectangles(screens')
    /\ UNCHANGED <<ref_width, ref_height, scale_percent, image_vars, export_vars, canvas_vars, load_vars>>

\* mutant: update_config assigns x and y before it validates the ratio
update_config_partial(index, t) ==
    /\ dispatching
    /\ index \in 1..Len(screens)
    /\ LET ratio_w == int(t[1])
           ratio_h == int(t[2])
           x       == int(t[3])
           y       == int(t[4])
       IN  IF ~(ratio_w.ok /\ ratio_h.ok /\ x.ok /\ y.ok)
           THEN UNCHANGED <<screens, last_log, rectangles>>
           ELSE IF ratio_w.val <= 0 \/ ratio_h.val <= 0
           THEN /\ last_log' = LogLine("ERROR", "update_config",
                                       <<"Invalid ratio", ratio_w.val, ratio_h.val>>)
                /\ screens' = [screens EXCEPT ![index].x = x.val, ![index].y = y.val]
                /\ UNCHANGED rectangles
           ELSE /\ screens' = on_screen_update(
                       [screens EXCEPT ![index] =
                           assign_config(@, ratio_w.val, ratio_h.val, x.val, y.val)])
                /\ rectangles' = update_preview_rectangles(screens')
                /\ last_log' = LogLine("INFO", "update_config",
                                       <<"Screen updated automatically", screens[index].id + 1>>)
    /\ UNCHANGED <<ref_width, ref_height, scale_percent, image_vars, export_vars, canvas_vars, load_vars>>

\* update_config of the widget of screens[index], its entries holding the texts t
update_config(index, t) ==
    /\ dispatching
    /\ index \in 1..Len(screens)
    /\ LET ratio_w == int(t[1])
           ratio_h == int(t[2])
           x       == int(t[3])
           y       == int(t[4])
       IN  IF ~(ratio_w.ok /\ ratio_h.ok /\ x.ok /\ y.ok)
           THEN UNCHANGED <<screens, last_log, rectangles>>
           ELSE IF ratio_w.val <= 0 \/ ratio_h.val <= 0
           THEN /\ last_log' = LogLine("ERROR", "update_config",
                                       <<"Invalid ratio", ratio_w.val, ratio_h.val>>)
                /\ UNCHANGED <<screens, rectangles>>
           ELSE /\ screens' = on_screen_update(
                       [screens EXCEPT ![index] =
                           assign_config(@, ratio_w.val, ratio_h.val, x.val, y.val)])
                /\ rectangles' = update_preview_rectangles(screens')
                /\ last_log' = LogLine("INFO", "update_config",
                                       <<"Screen updated automatically", screens[index].id + 1>>)
    /\ UNCHANGED <<ref_width, ref_height, scale_percent, image_vars, export_vars, canvas_vars, load_vars>>

\* apply_reference, the two entries holding the texts t
apply_reference(t) ==
    /\ dispatching
    /\ LET new_width  == int(t[1])
           new_height == int(t[2])
       IN  IF ~(new_width.ok /\ new_height.ok)
           THEN /\ last_log' = LogLine("ERROR", "apply_reference",
                                       <<"Invalid values for reference resolution">>)
                /\ UNCHANGED <<screens, ref_width, ref_height, rectangles>>
           ELSE IF new_width.val <= 0 \/ new_height.val <= 0
           THEN /\ last_log' = LogLine("ERROR", "apply_reference",
                                       <<"Invalid reference resolution">>)
                /\ UNCHANGED <<screens, ref_width, ref_height, rectangles>>
           ELSE /\ ref_width' = new_width.val
                /\ ref_height' = new_height.val
                /\ last_log' = LogLine("INFO", "apply_reference",
                                       <<"New reference resolution", new_width.val, new_height.val>>)
                /\ screens' = on_global_config_change(new_width.val, new_height.val, scale_percent)
                /\ rectangles' = update_preview_rectangles(screens')
    /\ UNCHANGED <<scale_percent, image_vars, export_vars, canvas_vars, load_vars>>

\* on_slider_change with the slider at value (in tenths)
on_slider_change(value) ==
    /\ dispatching
    /\ scale_percent' = IntOfTenths(value)
    /\ screens' = on_global_config_change(ref_width, ref_height, IntOfTenths(value))
    /\ rectangles' = update_preview_rectangles(screens')
    /\ UNCHANGED <<ref_width, ref_height, last_log, image_vars, export_vars, canvas_vars, load_vars>>

(***************************************************************************)
(* Images and export                                                       *)
(***************************************************************************)
\* Image.open(file_path)
Image_open(file_path) ==
    [file |-> file_path, size |-> ImageFiles[file_path].size, data |-> ImageFiles[file_path].data]

\* load_image up to preview_canvas.update() in update_preview_full; file_path
\* is what the dialog returned (empty when cancelled).  update() dispatches the
\* events that are pending before update_preview_full goes on.
load_image(file_path) ==
    /\ can_wait
    /\ IF file_path = <<>>
       THEN UNCHANGED <<image_vars, last_log, rectangles, pc, image_before, stack, nested>>
       ELSE IF ~ImageFiles[file_path].header
       THEN /\ last_log' = LogLine("ERROR", "load_image", <<"Error loading image">>)
            /\ UNCHANGED <<image_vars, rectangles, pc, image_before, stack, nested>>
       ELSE /\ image' = Image_open(file_path)
            /\ image_path' = file_path
            /\ rectangles' = <<>>
            /\ call("update", image_vars)
            /\ UNCHANGED last_log
    /\ UNCHANGED <<config_vars, batch_vars, canvas_vars, pending>>

\* the call of update_preview_full that root.after scheduled, up to
\* preview_canvas.update()
update_preview_timer ==
    /\ can_wait
    /\ pending > 0
    /\ pending' = pending - 1
    /\ rectangles' = <<>>
    /\ call("timer", NoLoad)
    /\ UNCHANGED <<config_vars, image_vars, batch_vars, last_log, canvas_vars>>

\* update_preview_full from the return of preview_canvas.update() on, and, when
\* load_image called it, the rest of load_image.  laid_out tells whether the
\* canvas is wider and higher than one pixel; resize raises when the pixel
\* data does not decode; draw_rectangles adds its items to those on the canvas.
update_preview_full(laid_out) ==
    /\ pc \in {"update", "timer"}
    /\ laid_out \/ pending < MaxTimers
    /\ IF ~laid_out
       THEN /\ pending' = pending + 1
            /\ last_log' = IF pc = "update"
                           THEN LogLine("INFO", "load_image", <<"Image loaded">>)
                           ELSE last_log
            /\ UNCHANGED preview_vars
       ELSE /\ scale_factor' = preview_scale(image.size)
            /\ IF image.data
               THEN /\ background_image' =
                          [src |-> image.file, size |-> resized(image.size, scale_factor')]
                    /\ x_offset' = centered(background_image'.size)[1]
                    /\ y_offset' = centered(background_image'.size)[2]
                    /\ rectangles' =
                          rectangles \o draw_rectangles(screens, scale_factor', x_offset', y_offset')
                    /\ last_log' = IF pc = "update"
                                   THEN LogLine("INFO", "load_image", <<"Image loaded">>)
                                   ELSE last_log
               ELSE /\ last_log' = IF pc = "update"
                                   THEN LogLine("ERROR", "load_image", <<"Error loading image">>)
                                   ELSE last_log
                    /\ UNCHANGED <<x_offset, y_offset, background_image, rectangles>>
            /\ UNCHANGED pending
    /\ return
    /\ UNCHANGED <<config_vars, image_vars, batch_vars>>

\* mutant: the test looks in the wrong place and never finds the file
exists_never(files, path) == FALSE

exists(files, path) == path \in DOMAIN files

RECURSIVE unique_from(_, _, _, _)
unique_from(files, name, ext, counter) ==
    LET new_path == name \o <<"_">> \o Str(counter) \o ext
    IN  IF ~exists(files, new_path) THEN new_path
        ELSE unique_from(files, name, ext, counter + 1)

\* mutant: the counter of the suffix starts at 1
get_unique_filename_from_1(files, base_path) ==
    IF ~exists(files, base_path) THEN base_path
    ELSE LET ne == splitext(base_path) IN unique_from(files, ne[1], ne[2], 1)

\* mutant: the base path is used whether or not it exists
get_unique_filename_base(files, base_path) == base_path

get_unique_filename(files, base_path) ==
    IF ~exists(files, base_path) THEN base_path
    ELSE LET ne == splitext(base_path) IN unique_from(files, ne[1], ne[2], 2)

\* f"wallpaper_screen_{screen.ratio_w}-{screen.ratio_h}{ext}"
Stem == <<"w", "a", "l", "l", "p", "a", "p", "e", "r", "_", "s", "c", "r", "e", "e", "n", "_">>

filename_of(s, ext) == Stem \o Str(s.ratio_w) \o <<"-">> \o Str(s.ratio_h) \o ext

\* the extensions for which PIL has a registered writer
SaveExtensions ==
    { <<".", "p", "n", "g">>, <<".", "j", "p", "g">>, <<".", "j", "p", "e", "g">>,
      <<".", "b", "m", "p">>, <<".", "g", "i", "f">> }

\* the test of extract_all that skips a screen
exceeds(s, img) ==
    \/ s.x < 0
    \/ s.y < 0
    \/ s.x + s.width > img.size[1]
    \/ s.y + s.height > img.size[2]

\* the file that cropped.save writes: the pixels of box taken from the image file
Cropped(img, box) == [src |-> img.file, box |-> box]

\* extract_all up to filedialog.askdirectory, which dispatches the events
\* that are pending while the dialog is open
extract_all ==
    /\ can_wait
    /\ runs < MaxRuns
    /\ IF image = None
       THEN /\ last_log' = LogLine("WARNING", "extract_all", <<"No image loaded">>)
            /\ UNCHANGED <<pc, image_before, stack, nested>>
       ELSE IF Len(screens) = 0
       THEN /\ last_log' = LogLine("WARNING", "extract_all", <<"No screens configured">>)
            /\ UNCHANGED <<pc, image_before, stack, nested>>
       ELSE /\ call("dialog", NoLoad)
            /\ UNCHANGED last_log
    /\ UNCHANGED <<config_vars, image_vars, batch_vars, preview_vars, pending>>

\* extract_all from the return of filedialog.askdirectory up to the loop; folder
\* is what the dialog returned (empty when cancelled)
extract_all_folder(folder) ==
    /\ pc = "dialog"
    /\ IF folder = <<>>
       THEN /\ last_log' = LogLine("INFO", "extract_all", <<"Extraction cancelled by user">>)
            /\ return
            /\ UNCHANGED batch_vars
       ELSE /\ pc' = "loop"
            /\ idx' = 1
            /\ output_folder' = folder
            /\ extracted_count' = 0
            /\ errors' = <<>>
            /\ runs' = runs + 1
            /\ UNCHANGED <<fs, extracted, last_log, image_before, stack, nested>>
    /\ UNCHANGED <<config_vars, image_vars, preview_vars, pending>>

\* mutant: a screen that exceeds the image ends the loop (break for continue)
extract_screen_abort ==
    /\ pc = "loop"
    /\ idx <= Len(screens)
    /\ LET screen   == screens[idx]
           ext      == splitext(image_path)[2]
           filepath == get_unique_filename(fs, join(output_folder, filename_of(screen, ext)))
       IN  IF exceeds(screen, image)
           THEN /\ errors' = Append(errors, <<"Screen", screen.id + 1, "exceeds image boundaries">>)
                /\ last_log' = LogLine("ERROR", "extract_all",
                                       <<"Screen exceeds image boundaries", screen.id + 1>>)
                /\ idx' = Len(screens) + 1
                /\ UNCHANGED <<fs, extracted_count, extracted>>
           ELSE IF ~image.data
           THEN /\ errors' = Append(errors, <<"Error screen", screen.id + 1, "image file is truncated">>)
                /\ last_log' = LogLine("ERROR", "extract_all",
                                       <<"Error screen", screen.id + 1, "image file is truncated">>)
                /\ idx' = idx + 1
                /\ UNCHANGED <<fs, extracted_count, extracted>>
           ELSE IF splitext(filepath)[2] \notin SaveExtensions
           THEN /\ errors' = Append(errors, <<"Error screen", screen.id + 1, "unknown file extension">>)
                /\ last_log' = LogLine("ERROR", "extract_all",
                                       <<"Error screen", screen.id + 1, "unknown file extension">>)
                /\ idx' = idx + 1
                /\ UNCHANGED <<fs, extracted_count, extracted>>
           ELSE /\ fs' = (filepath :> Cropped(image, get_box(screen))) @@ fs
                /\ extracted_count' = extracted_count + 1
                /\ extracted' = Append(extracted,
                                       [run |-> runs, screen |-> screen.id + 1, filepath |-> filepath])
                /\ last_log' = LogLine("INFO", "extract_all",
                                       <<"Screen extracted", screen.id + 1, filepath>>)
                /\ idx' = idx + 1
                /\ UNCHANGED errors
    /\ UNCHANGED <<config_vars, image_vars, pc, output_folder, runs, preview_vars, load_vars>>

\* one iteration of "for screen in self.screens"
extract_screen ==
    /\ pc = "loop"
    /\ idx <= Len(screens)
    /\ LET screen   == screens[idx]
           ext      == splitext(image_path)[2]
           filepath == get_unique_filename(fs, join(output_folder, filename_of(screen, ext)))
       IN  IF exceeds(screen, image)
           THEN /\ errors' = Append(errors, <<"Screen", screen.id + 1, "exceeds image boundaries">>)
                /\ last_log' = LogLine("ERROR", "extract_all",
                                       <<"Screen exceeds image boundaries", screen.id + 1>>)
                /\ UNCHANGED <<fs, extracted_count, extracted>>
           ELSE IF ~image.data
           THEN /\ errors' = Append(errors, <<"Error screen", screen.id + 1, "image file is truncated">>)
                /\ last_log' = LogLine("ERROR", "extract_all",
                                       <<"Error screen", screen.id + 1, "image file is truncated">>)
                /\ UNCHANGED <<fs, extracted_count, extracted>>
           ELSE IF splitext(filepath)[2] \notin SaveExtensions
           THEN /\ errors' = Append(errors, <<"Error screen", screen.id + 1, "unknown file extension">>)
                /\ last_log' = LogLine("ERROR", "extract_all",
                                       <<"Error screen", screen.id + 1, "unknown file extension">>)
                /\ UNCHANGED <<fs, extracted_count, extracted>>
           ELSE /\ fs' = (filepath :> Cropped(image, get_box(screen))) @@ fs
                /\ extracted_count' = extracted_count + 1
                /\ extracted' = Append(extracted,
                                       [run |-> runs, screen |-> screen.id + 1, filepath |-> filepath])
                /\ last_log' = LogLine("INFO", "extract_all",
                                       <<"Screen extracted", screen.id + 1, filepath>>)
                /\ UNCHANGED errors
    /\ idx' = idx + 1
    /\ UNCHANGED <<config_vars, image_vars, pc, output_folder, runs, preview_vars, load_vars>>

\* the end of extract_all: the result dialog
extract_result ==
    /\ pc = "loop"
    /\ idx > Len(screens)
    /\ return
    /\ UNCHANGED <<config_vars, image_vars, fs, idx, output_folder, extracted_count, errors,
                   extracted, runs, last_log, preview_vars, pending>>

Next ==
    \/ add_screen
    \/ \E index \in 1..MaxScreens : delete_screen(index)
    \/ \E index \in 1..MaxScreens, t \in EditInputs : update_config(index, t)
    \/ \E t \in RefInputs : apply_reference(t)
    \/ \E value \in SliderTenths : on_slider_change(value)

Spec == Init /\ [][Next]_vars


(***************************************************************************)
(* Export sessions: the screen list is configured (by add_screen and       *)
(* update_config under the initial reference and scale), update_config of  *)
(* the last screen being the last handler that ran, and the output folder  *)
(* holds two files with names of the ratio 16:9 and none with a name of    *)
(* the ratio 9:16.  Images are loaded and exported, from the main loop and *)
(* inside a handler that waits.  The window is laid out.                   *)
(***************************************************************************)
OutputFolder == <<"/", "o">>

Base169 == join(OutputFolder, Stem \o <<"1", "6", "-", "9", ".", "p", "n", "g">>)
Third169 == join(OutputFolder, Stem \o <<"1", "6", "-", "9", "_", "3", ".", "p", "n", "g">>)

\* a file that was saved to the folder before the session
OldFile == [src |-> <<"/", "o", "l", "d", ".", "p", "n", "g">>, box |-> <<0, 0, 1920, 1080>>]

\* what the output folder holds before the first export
InitialFolders ==
    { (Base169 :> OldFile) @@ (Third169 :> OldFile) }

InitExport ==
    /\ \E n \in 0..MaxExported :
         \E cs \in [1..n -> ExportScreens] :
            screens = [i \in 1..n |-> configured(cs[i], i - 1)]
    /\ ref_width = 2560
    /\ ref_height = 1440
    /\ scale_percent = 50
    /\ image = None
    /\ image_path = NoPath
    /\ fs \in InitialFolders
    /\ pc = "idle"
    /\ idx = 0
    /\ output_folder = <<>>
    /\ extracted_count = 0
    /\ errors = <<>>
    /\ extracted = <<>>
    /\ runs = 0
    /\ last_log = IF Len(screens) = 0
                  THEN LogLine("INFO", "__init__", "Application started")
                  ELSE LogLine("INFO", "update_config",
                               <<"Screen updated automatically", Len(screens)>>)
    /\ scale_factor = FlFromInt(1)
    /\ x_offset = 0
    /\ y_offset = 0
    /\ background_image = NoBackground
    /\ rectangles = <<>>
    /\ pending = 0
    /\ image_before = NoLoad
    /\ stack = <<>>
    /\ nested = 0

NextExport ==
    \/ \E file_path \in DOMAIN ImageFiles \cup {<<>>} : load_image(file_path)
    \/ update_preview_full(TRUE)
    \/ extract_all
    \/ \E folder \in {<<>>, OutputFolder} : extract_all_folder(folder)
    \/ extract_screen
    \/ extract_result

SpecExport == InitExport /\ [][NextExport]_vars

(***************************************************************************)
(* Preview sessions: screens are added, edited and deleted and images are  *)
(* loaded; the events that are pending when load_image or the timer calls  *)
(* preview_canvas.update() are handled before update_preview_full goes on. *)
(***************************************************************************)
\* the edits whose x entry holds an integer other than 0
PreviewEdits == {t \in EditInputs : int(t[3]).ok /\ int(t[3]).val # 0}

NextPreview ==
    \/ add_screen
    \/ \E index \in 1..MaxScreens : delete_screen(index)
    \/ \E index \in 1..MaxScreens, t \in PreviewEdits : update_config(index, t)
    \/ \E file_path \in DOMAIN ImageFiles \cup {<<>>} : load_image(file_path)
    \/ \E laid_out \in BOOLEAN : update_preview_full(laid_out)
    \/ update_preview_timer

SpecPreview == Init /\ [][NextPreview]_vars

(***************************************************************************)
(* Resolution derivation on its own: a handler of the global settings is   *)
(* about to call on_change (pc = "on_change").  Either on_slider_change    *)
(* has assigned the scale, the screen having the resolution of the         *)
(* reference at scale 50 and update_config being the last that logged; or  *)
(* apply_reference has assigned and logged the reference, the screen       *)
(* having the resolution of 2560x1440 at the scale.                        *)
(***************************************************************************)
\* the one screen of ratio r, calculated under the settings of the last on_change
edited(r, refw, refh, sp) ==
    <<calculate_resolution(assign_config(ScreenConfig(0), r[1], r[2], 0, 0), refw, refh, sp)>>

InitCalc ==
    /\ \E r \in CalcRatios :
          \/ \E ref \in CalcRefs :
                /\ screens = edited(r, ref[1], ref[2], 50)
                /\ ref_width = ref[1]
                /\ ref_height = ref[2]
                /\ scale_percent \in 0..ScaleMax
                /\ last_log = LogLine("INFO", "update_config",
                                      <<"Screen updated automatically", 1>>)
          \/ \E sp \in 0..ScaleMax :
                /\ screens = edited(r, 2560, 1440, sp)
                /\ scale_percent = sp
                /\ \E ref \in CalcRefs :
                      /\ ref_width = ref[1]
                      /\ ref_height = ref[2]
                      /\ last_log = LogLine("INFO", "apply_reference",
                                            <<"New reference resolution", ref[1], ref[2]>>)
    /\ image = None
    /\ image_path = NoPath
    /\ fs = <<>>
    /\ pc = "on_change"
    /\ idx = 0
    /\ output_folder = <<>>
    /\ extracted_count = 0
    /\ errors = <<>>
    /\ extracted = <<>>
    /\ runs = 0
    /\ scale_factor = FlFromInt(1)
    /\ x_offset = 0
    /\ y_offset = 0
    /\ background_image = NoBackground
    /\ rectangles = <<>>
    /\ pending = 0
    /\ image_before = NoLoad
    /\ stack = <<>>
    /\ nested = 0

\* self.on_change() at the end of apply_reference and on_slider_change
on_change ==
    /\ pc = "on_change"
    /\ screens' = on_global_config_change(ref_width, ref_height, scale_percent)
    /\ pc' = "idle"
    /\ UNCHANGED <<ref_width, ref_height, scale_percent, image_vars, fs, idx, output_folder,
                   extracted_count, errors, extracted, runs, last_log>>
    /\ rectangles' = update_preview_rectangles(screens')
    /\ UNCHANGED <<canvas_vars, load_vars>>

NextCalc == on_change

SpecCalc == InitCalc /\ [][NextCalc]_vars


(***************************************************************************)
(* Properties                                                              *)
(***************************************************************************)

\* C1: in every state between two events, every screen of the list has the
\* width and height that calculate_resolution yields for its current ratio and
\* the current ref_width, ref_height and scale_percent.
C1_ResolutionsConsistent ==
    \A i \in 1..Len(screens) :
        <<screens[i].width, screens[i].height>> =
            resolution_of(screens[i].ratio_w, screens[i].ratio_h,
                          ref_width, ref_height, scale_percent)

\* two screens, the first edited away from 16:9, reference and scale changed,
\* and the last event a rejected edit
C1_Witness ==
    /\ Len(screens) = 2
    /\ screens[1].ratio_w # 16
    /\ ref_width # 2560
    /\ scale_percent # 50
    /\ last_log.level = "ERROR"

\* C4: the ids of the screens are their positions in the list, counted from 0.
C4_IdsDense == \A i \in 1..Len(screens) : screens[i].id = i - 1

\* a screen has just been deleted and one that was edited remains
C4_Witness ==
    /\ last_log.funcName = "delete_screen"
    /\ Len(screens) >= 1
    /\ screens[1].ratio_w # 16

\* the edits that C5 calls invalid
InvalidEdit(t) ==
    \/ \E i \in 1..4 : ~int(t[i]).ok
    \/ int(t[1]).val <= 0
    \/ int(t[2]).val <= 0

InvalidReference(t) ==
    \/ \E i \in 1..2 : ~int(t[i]).ok
    \/ int(t[1]).val <= 0
    \/ int(t[2]).val <= 0

RejectedEdit ==
    \/ \E index \in 1..MaxScreens, t \in EditInputs : InvalidEdit(t) /\ update_config(index, t)
    \/ \E t \in RefInputs : InvalidReference(t) /\ apply_reference(t)

\* C5: an update_config or apply_reference whose input is invalid changes no
\* field of any screen and no global parameter.
C5_RejectedAsAWhole == [][RejectedEdit => UNCHANGED config_vars]_vars

\* the edit 0:9 at x = 900 has just been refused and no screen is at x = 900
C5_Witness ==
    /\ last_log = LogLine("ERROR", "update_config", <<"Invalid ratio", 0, 9>>)
    /\ Len(screens) >= 1
    /\ \A i \in 1..Len(screens) : screens[i].x # 900

\* C7: every screen's width and height are strictly greater than 0.
C7_PositiveResolutions ==
    \A i \in 1..Len(screens) : screens[i].width > 0 /\ screens[i].height > 0


\* the loop of extract_all has processed every screen
BatchDone == pc = "loop" /\ idx > Len(screens)

\* C2: no step of an export changes or removes a file that exists: neither one
\* that was in the folder before the export nor one written earlier in the batch.
C2_NeverOverwrites ==
    [][\A p \in DOMAIN fs : p \in DOMAIN fs' /\ fs'[p] = fs[p]]_vars

\* a batch wrote two files for two screens of the same ratio into a folder
\* that already held the file of that ratio
C2_Witness ==
    /\ BatchDone
    /\ Len(screens) = 2
    /\ screens[1].ratio_w = screens[2].ratio_w
    /\ extracted_count = 2
    /\ Base169 \in DOMAIN fs
    /\ fs[Base169] = OldFile

\* the box of screen s leaves an image of width W and height H
OutOfBounds(s, W, H) == ~(s.x >= 0 /\ s.y >= 0 /\ s.x + s.width <= W /\ s.y + s.height <= H)

\* crop and save can succeed: the pixel data decodes and the image's extension has a writer
Writable == image.data /\ splitext(image_path)[2] \in SaveExtensions

ErrorsOf(s) == {j \in 1..Len(errors) : errors[j][2] = s.id + 1}

ExtractedOf(s, run) ==
    {j \in 1..Len(extracted) : extracted[j].run = run /\ extracted[j].screen = s.id + 1}

\* the file of screen s that the batch in progress wrote: exactly one line
\* "Screen N extracted", and its path holds the pixels of the box of s
SavedOnce(s) ==
    /\ Cardinality(ExtractedOf(s, runs)) = 1
    /\ \A j \in ExtractedOf(s, runs) :
           /\ extracted[j].filepath \in DOMAIN fs
           /\ fs[extracted[j].filepath] =
                  [src |-> image_path, box |-> <<s.x, s.y, s.x + s.width, s.y + s.height>>]

\* the one error of screen s is the boundary error, and it has no file
SkippedOnce(s) ==
    /\ ExtractedOf(s, runs) = {}
    /\ Cardinality(ErrorsOf(s)) = 1
    /\ \A j \in ErrorsOf(s) : errors[j] = <<"Screen", s.id + 1, "exceeds image boundaries">>

\* C3 (as stated): when the loop of extract_all ends, a screen whose box leaves
\* the image has exactly one error, the boundary error, and no file; every
\* screen whose box is inside has been cropped and saved: it has its file,
\* holding the pixels of its box, wherever the failing screens stand in the
\* list.
C3_Original ==
    BatchDone =>
        \A i \in 1..Len(screens) :
            IF OutOfBounds(screens[i], image.size[1], image.size[2])
            THEN SkippedOnce(screens[i])
            ELSE SavedOnce(screens[i])

\* C3 (amended): when the loop of extract_all ends, a screen whose box leaves
\* the image has exactly one error, the boundary error, and no file; every
\* screen whose box is inside was handed to crop and save, wherever the
\* failing screens stand in the list: it has exactly one outcome, its file or
\* the error that crop or save raised, and it has its file, holding the pixels
\* of its box, whenever the pixel data decodes and the image's extension has a
\* writer.
C3_OutOfBoundsSkipped ==
    BatchDone =>
        \A i \in 1..Len(screens) :
            IF OutOfBounds(screens[i], image.size[1], image.size[2])
            THEN SkippedOnce(screens[i])
            ELSE /\ Cardinality(ErrorsOf(screens[i]))
                       + Cardinality(ExtractedOf(screens[i], runs)) = 1
                 /\ Writable => SavedOnce(screens[i])

\* the first screen exceeded the image and the second was saved
C3_Witness ==
    /\ BatchDone
    /\ Len(screens) = 2
    /\ OutOfBounds(screens[1], image.size[1], image.size[2])
    /\ ~OutOfBounds(screens[2], image.size[1], image.size[2])
    /\ SavedOnce(screens[2])
    /\ Len(errors) = 1


\* <folder>/wallpaper_screen_<rw>-<rh><ext> and the same with _k before the extension
BaseOf(folder, s, ext) ==
    join(folder, Stem \o Str(s.ratio_w) \o <<"-">> \o Str(s.ratio_h) \o ext)

Suffixed(folder, s, ext, k) ==
    join(folder, Stem \o Str(s.ratio_w) \o <<"-">> \o Str(s.ratio_h) \o <<"_">> \o Str(k) \o ext)

ExtractedPaths == {extracted[j].filepath : j \in 1..Len(extracted)}

MaxSuffix == Cardinality(DOMAIN fs) + 1

ImageExtensions == {splitext(f)[2] : f \in DOMAIN ImageFiles}

\* every file an export wrote has the base path of its screen, or that path
\* with _k before the extension where k >= 2, the base path and the paths with
\* the suffixes 2..k-1 existing
SmallestFreeName ==
    \A j \in 1..Len(extracted) :
        LET p == extracted[j].filepath
            s == screens[extracted[j].screen]
        IN  \E ext \in ImageExtensions :
                \/ p = BaseOf(OutputFolder, s, ext)
                \/ \E k \in 2..MaxSuffix :
                      /\ p = Suffixed(OutputFolder, s, ext, k)
                      /\ BaseOf(OutputFolder, s, ext) \in DOMAIN fs
                      /\ \A i \in 2..(k - 1) : Suffixed(OutputFolder, s, ext, i) \in DOMAIN fs

\* the folder held no file with a name of screen s before the exports
NoMatchingFile(s, ext) ==
    \A p \in (DOMAIN fs) \ ExtractedPaths :
        /\ p # BaseOf(OutputFolder, s, ext)
        /\ \A k \in 2..MaxSuffix : p # Suffixed(OutputFolder, s, ext, k)

\* screen i was saved in the first and in the second export, from the same
\* image, into a folder that held no matching file: the first file has the
\* base name and the second the suffix _2
TwiceGivesBaseThenTwo(i) ==
    \A j1 \in ExtractedOf(screens[i], 1), j2 \in ExtractedOf(screens[i], 2) :
        LET p1  == extracted[j1].filepath
            p2  == extracted[j2].filepath
            ext == splitext(p1)[2]
        IN  (fs[p1].src = fs[p2].src /\ NoMatchingFile(screens[i], ext)) =>
                /\ p1 = BaseOf(OutputFolder, screens[i], ext)
                /\ p2 = Suffixed(OutputFolder, screens[i], ext, 2)

RatioShared(i) ==
    \E i2 \in 1..Len(screens) :
        /\ i2 # i
        /\ screens[i2].ratio_w = screens[i].ratio_w
        /\ screens[i2].ratio_h = screens[i].ratio_h

\* C8 (as stated): get_unique_filename picks the base path or the smallest free
\* suffix k >= 2, and so the same export run twice into a folder without a
\* matching file writes the base name the first time and the suffix _2 the
\* second time, for every screen.
C8_Original ==
    /\ SmallestFreeName
    /\ \A i \in 1..Len(screens) : TwiceGivesBaseThenTwo(i)

\* C8 (amended): get_unique_filename picks the base path or the smallest free
\* suffix k >= 2, and so the same export run twice into a folder without a
\* matching file writes the base name the first time and the suffix _2 the
\* second time, for every screen whose ratio no other screen of the list has.
C8_SmallestFreeSuffix ==
    /\ SmallestFreeName
    /\ \A i \in 1..Len(screens) : ~RatioShared(i) => TwiceGivesBaseThenTwo(i)

\* one screen of ratio 9:16 exported twice into the folder, which held no file
\* with a name of that ratio: base name, then _2
C8_Witness ==
    /\ BatchDone
    /\ runs = 2
    /\ Len(screens) = 1
    /\ Len(extracted) = 2
    /\ NoMatchingFile(screens[1], <<".", "p", "n", "g">>)
    /\ extracted[1].filepath = BaseOf(OutputFolder, screens[1], <<".", "p", "n", "g">>)
    /\ extracted[2].filepath = Suffixed(OutputFolder, screens[1], <<".", "p", "n", "g">>, 2)

(***************************************************************************)
(* Properties of the resolution derivation (SpecCalc)                      *)
(***************************************************************************)
Abs(n) == IF n < 0 THEN 0 - n ELSE n

Calculated == pc = "idle" /\ Len(screens) = 1

\* 200 times the exact scaled_max_side: max_ref_side * (100 + 3 * scale_percent)
ScaledTimes200 == Max(ref_width, ref_height) * (100 + 3 * scale_percent)

\* C6 (as stated): the long side is round(scaled_max_side) and the short side
\* is round(long * short_ratio / long_ratio), from the rounded long side.
C6_Original ==
    Calculated =>
        LET s    == screens[1]
            long == PyRound(scaled_max_side_of(ref_width, ref_height, scale_percent))
        IN  IF s.ratio_w >= s.ratio_h
            THEN /\ s.width = long
                 /\ s.height = PyRound(FlDivInt(s.width * s.ratio_h, s.ratio_w))
            ELSE /\ s.height = long
                 /\ s.width = PyRound(FlDivInt(s.height * s.ratio_w, s.ratio_h))

\* C6 (amended): both sides are rounded from the unrounded scaled_max_side:
\* the long side is an integer nearest to it and the short side an integer
\* nearest to scaled_max_side * short_ratio / long_ratio.
C6_ShortSideFromUnrounded ==
    Calculated =>
        LET s == screens[1] IN
        IF s.ratio_w >= s.ratio_h
        THEN /\ Abs(200 * s.width - ScaledTimes200) <= 100
             /\ Abs(200 * s.ratio_w * s.height - ScaledTimes200 * s.ratio_h) <= 100 * s.ratio_w
        ELSE /\ Abs(200 * s.height - ScaledTimes200) <= 100
             /\ Abs(200 * s.ratio_h * s.width - ScaledTimes200 * s.ratio_w) <= 100 * s.ratio_h

\* reference 3x2 at scale 0 and ratio 4:3: scaled_max_side is 1.5, the sides
\* are 2 and round(1.125) = 1, where round(2 * 3 / 4) would be 2
C6_Witness ==
    /\ Calculated
    /\ ref_width = 3 /\ ref_height = 2 /\ scale_percent = 0
    /\ screens[1].ratio_w = 4 /\ screens[1].ratio_h = 3
    /\ screens[1].width = 2 /\ screens[1].height = 1

\* C9: the computed resolution keeps the aspect ratio within one pixel:
\* |height - width*rh/rw| <= 1 when rw >= rh, |width - height*rw/rh| <= 1 otherwise.
C9_AspectWithinOnePixel ==
    Calculated =>
        LET s == screens[1] IN
        IF s.ratio_w >= s.ratio_h
        THEN Abs(s.height * s.ratio_w - s.width * s.ratio_h) <= s.ratio_w
        ELSE Abs(s.width * s.ratio_h - s.height * s.ratio_w) <= s.ratio_h

\* a ratio that the pixels cannot hit exactly
C9_Witness ==
    /\ Calculated
    /\ screens[1].ratio_w = 21 /\ screens[1].ratio_h = 9
    /\ screens[1].height * 21 # screens[1].width * 9

\* C10: at scale 50 the longer side is max(ref_width, ref_height), at 0 it is
\* round(0.5 * max), at 100 it is 2 * max; reference 2560x1440 at scale 50
\* gives (2560, 1440) for 16:9 and (810, 1440) for 9:16.
C10_ScaleMapping ==
    Calculated =>
        LET s         == screens[1]
            long      == Max(s.width, s.height)
            max_ref   == Max(ref_width, ref_height)
        IN  /\ scale_percent = 50 => long = max_ref
            /\ scale_percent = 0 => long = PyRound(FlMul(FlHalf, FlFromInt(max_ref)))
            /\ scale_percent = 100 => long = 2 * max_ref
            /\ (ref_width = 2560 /\ ref_height = 1440 /\ scale_percent = 50) =>
                  /\ (s.ratio_w = 16 /\ s.ratio_h = 9) => (s.width = 2560 /\ s.height = 1440)
                  /\ (s.ratio_w = 9 /\ s.ratio_h = 16) => (s.width = 810 /\ s.height = 1440)

\* load_image has called update_preview_full and ends in this step in its
\* except branch
PreviewFailed ==
    /\ pc = "update"
    /\ pc' = "idle" \/ Len(stack') < Len(stack)
    /\ last_log' = LogLine("ERROR", "load_image", <<"Error loading image">>)

\* C11: a load_image that fails at any step, opening the file or building the
\* preview from it, leaves image and image_path as they were before the call.
C11_FailedLoadKeepsImage ==
    [][/\ \A f \in DOMAIN ImageFiles :
            load_image(f) /\ ~ImageFiles[f].header => UNCHANGED image_vars
       /\ PreviewFailed => image_vars' = image_before]_vars

\* the user's fields of a screen
Placement(s) == <<s.ratio_w, s.ratio_h, s.x, s.y>>

\* the list ss without its element at index, as placements
WithoutElement(ss, index) ==
    [j \in 1..(Len(ss) - 1) |-> Placement(ss[IF j < index THEN j ELSE j + 1])]

\* C12: delete_screen of the screen at an index removes exactly that screen:
\* the list is one shorter, the other screens keep their order and their
\* ratio_w, ratio_h, x and y.
C12_DeleteRemovesExactlyOne ==
    [][\A index \in 1..MaxScreens :
          delete_screen(index) =>
              /\ Len(screens') = Len(screens) - 1
              /\ [j \in 1..Len(screens') |-> Placement(screens'[j])]
                     = WithoutElement(screens, index)]_vars

\* a deletion left two screens, edited to different placements, the one at
\* x = 900 before the one at x = -1
C12_Witness ==
    /\ last_log.funcName = "delete_screen"
    /\ Len(screens) = 2
    /\ Placement(screens[1]) = <<4, 3, 900, 50>>
    /\ Placement(screens[2]) = <<9, 16, 0 - 1, 0>>

\* C14: every screen's color is the palette entry of its current id.
C14_ColorOfCurrentId ==
    \A i \in 1..Len(screens) :
        screens[i].color = colors[(screens[i].id % Len(colors)) + 1]

\* a deletion left a screen, which now has id 0 and the first color
C14_Witness ==
    /\ last_log.funcName = "delete_screen"
    /\ Len(screens) >= 1
    /\ screens[1].id = 0
    /\ screens[1].color = colors[1]
    /\ screens[1].x = 900

\* x has a fractional part (x a float >= 0)
HasFraction(x) == x.m # <<>> /\ x.e < 0 /\ BigLowNonZero(x.m, 0 - x.e)

\* floor(n * f) for an int n and a float f >= 0
floor_of_product(n, f) ==
    IF n >= 0 THEN PyTrunc(FlMul(FlFromInt(n), f))
    ELSE 0 - (PyTrunc(FlMul(FlFromInt(0 - n), f))
              + IF HasFraction(FlMul(FlFromInt(0 - n), f)) THEN 1 ELSE 0)

FloorCorners(s, sf, xo, yo) ==
    << floor_of_product(s.x, sf) + xo,
       floor_of_product(s.y, sf) + yo,
       floor_of_product(s.x + s.width, sf) + xo,
       floor_of_product(s.y + s.height, sf) + yo >>

\* the step has called draw_rectangles, which has put new items on the canvas
Drawn == rectangles' # rectangles /\ rectangles' # <<>>

\* C13: the rectangle drawn for every screen, one with a negative x or y
\* included, has the corners floor(x * scale_factor) + x_offset,
\* floor(y * scale_factor) + y_offset, floor((x + width) * scale_factor) + x_offset
\* and floor((y + height) * scale_factor) + y_offset: whenever draw_rectangles
\* has drawn, the last len(screens) rectangles of the canvas are these.
C13_FloorCorners ==
    [][Drawn =>
         \A i \in 1..Len(screens') :
            rectangles'[Len(rectangles') - Len(screens') + i]
                = FloorCorners(screens'[i], scale_factor', x_offset', y_offset')]_vars

\* the screen numbers of the errors increase
ErrorsInListOrder ==
    \A i \in 1..Len(errors) : \A j \in (i + 1)..Len(errors) : errors[i][2] < errors[j][2]

\* C15: a batch of extract_all accounts for every screen exactly once: when the
\* loop is over, extracted_count + len(errors) = len(screens) and the errors
\* are in the order of the screen list; and extracted_count counts the files
\* the batch creates in the folder: it starts at 0 and every step of the batch
\* adds to it the number of files the step adds to the folder.
C15_EveryScreenAccounted ==
    /\ [](BatchDone =>
            /\ extracted_count + Len(errors) = Len(screens)
            /\ ErrorsInListOrder
            /\ \A i \in 1..Len(screens) :
                  Cardinality(ErrorsOf(screens[i]))
                      + Cardinality(ExtractedOf(screens[i], runs)) = 1)
    /\ [][/\ pc = "dialog" /\ pc' = "loop" => extracted_count' = 0
          /\ pc = "loop" =>
                extracted_count' - extracted_count
                    = Cardinality(DOMAIN fs') - Cardinality(DOMAIN fs)]_vars

\* a second batch is over in which one screen was saved and the other, which
\* exceeds the image, was reported
C15_Witness ==
    /\ BatchDone
    /\ runs = 2
    /\ Len(screens) = 2
    /\ extracted_count = 1
    /\ Len(errors) = 1
    /\ errors[1][3] = "exceeds image boundaries"
====
